---- MODULE Spec2Model ----
(***************************************************************************)
(* Question generation service: request validation, prompt building, the   *)
(* inference gateway with its retry loop, response parsing and the         *)
(* "exactly 3 questions" assembly, for the three entry points of the       *)
(* repository:                                                             *)
(*   "main"    the /generate-questions handler of main.py                  *)
(*             (llm_utils.get_llm_response + line parser),                 *)
(*   "service" QuestionGenerationService + generator classes + LLMClient   *)
(*             (models.QuestionRequest + JSON parser),                     *)
(*   "baml"    BAMLService.generate_questions_async,                       *)
(*   "structure" parse_generated_questions of structure_prompt.py           *)
(*             (line parser with "Answer:" lines).                         *)
(***************************************************************************)
EXTENDS Integers, Sequences, FiniteSets, TLC

VARIABLES
    pc,          \* position of the request being served
    entry,       \* entry point serving it
    body,        \* the request as sent (fields may be omitted or null)
    request,     \* the request object after deserialisation
    outcome,     \* what the caller gets: status, detail, error
    prompt,      \* what the prompt builder produced
    attempt,     \* LLMClient.generate_response: loop variable
    httpLog,     \* outcome of every HTTP attempt of this request, in order
    sleeps,      \* seconds of every time.sleep of this request, in order
    llm,         \* result of the gateway call: none / text / raised
    llmCalls,    \* gateway invocations of this request
    parseCalls,  \* parser invocations of this request
    questions,   \* the question list handed to the caller
    callArgs,    \* BAMLService: the arguments passed to GenerateQuestions
    generation_metadata,  \* QuestionResponse.generation_metadata
    padIterations,        \* iterations of the padding loop of the service
    shared,      \* the fields of the service, generator and client objects
    threads      \* the local variables of each concurrent caller of the service

\* what QuestionGenerationService.generate_questions adds to its result
svcOut == <<generation_metadata, padIterations>>
\* the state that concurrent callers of one service object work on
concurrent == <<shared, threads>>

vars == <<pc, entry, body, request, outcome, prompt, attempt, httpLog,
          sleeps, llm, llmCalls, parseCalls, questions, callArgs,
          generation_metadata, padIterations, shared, threads>>

----------------------------------------------------------------------------
(* Bounds of the model *)

\* largest number of question blocks / JSON question entries in a model reply
MaxReplyQuestions == 4

(* Program constants *)

\* Field(None, ge=2, le=6) on number_of_distractors
MinDistractors == 2
MaxDistractors == 6
\* Field(None, ge=1, le=4) on number_of_correct_answers
MinCorrect == 1
MaxCorrect == 4
\* max_retries = 3 in LLMClient.generate_response
max_retries == 3
\* the fixed number of questions of a result
NumQuestions == 3

----------------------------------------------------------------------------
(* Requests *)

\* An Optional[int] is the empty set (None) or a singleton.
None == {}
Some(n) == {n}
IsNone(o) == o = {}
Val(o) == CHOOSE n \in o : TRUE
\* Python's `o or d` on an Optional[int]: None and 0 are falsy
OrDefault(o, d) == IF IsNone(o) \/ Val(o) = 0 THEN d ELSE Val(o)

RECURSIVE SumSeq(_)
SumSeq(s) == IF s = <<>> THEN 0 ELSE Head(s) + SumSeq(Tail(s))

\* question_type values of main.py (line 71) ...
valid_types == {"Multiple Choice", "Multi-Select", "True or False",
                "True or False with Justification"}
\* ... and of models.QuestionType / baml_service
QuestionType == {"MULTICHOICE", "MULTI_SELECT", "TRUE_FALSE",
                 "TRUE_FALSE_JUSTIFICATION"}
UnknownType == "Essay"

IsTrueFalse(t) == t \in {"True or False", "True or False with Justification",
                         "TRUE_FALSE", "TRUE_FALSE_JUSTIFICATION"}
IsMultiSelect(t) == t \in {"Multi-Select", "MULTI_SELECT"}
IsSingleChoice(t) == t \in {"Multiple Choice", "MULTICHOICE"}

\* A field of the request body: omitted, or given with a value (null or a
\* number).
OptField(vals) ==
    {[given |-> FALSE, val |-> None]}
        \cup {[given |-> TRUE, val |-> v] : v \in {None} \cup {Some(n) : n \in vals}}

DistractorInputs == {MinDistractors - 1, MinDistractors, 3, MaxDistractors,
                     MaxDistractors + 1}
CorrectInputs == {MinCorrect - 1, MinCorrect, 2, MaxCorrect, MaxCorrect + 1}

TypesOf(e) == IF e = "main" THEN valid_types \cup {UnknownType}
              ELSE QuestionType \cup {UnknownType}

Bodies(e) == [question_type : TypesOf(e),
              number_of_distractors : OptField(DistractorInputs),
              number_of_correct_answers : OptField(CorrectInputs)]

NoBody == [question_type |-> "", number_of_distractors |-> [given |-> FALSE, val |-> None],
           number_of_correct_answers |-> [given |-> FALSE, val |-> None]]
NoRequest == [question_type |-> "", number_of_distractors |-> None,
              number_of_correct_answers |-> None]

----------------------------------------------------------------------------
(* Deserialisation: the pydantic models *)

\* Field(None, ge=lo, le=hi): None passes, a number must lie in the range.
InRange(o, lo, hi) == IsNone(o) \/ (Val(o) >= lo /\ Val(o) <= hi)

\* main.QuestionRequest: question_type is a plain str, both counts are
\* range-checked Optional[int] fields without validators.
MainFieldErrors(b) ==
    (IF InRange(b.number_of_distractors.val, MinDistractors, MaxDistractors)
        THEN <<>> ELSE <<"number_of_distractors: out of range">>)
    \o (IF InRange(b.number_of_correct_answers.val, MinCorrect, MaxCorrect)
        THEN <<>> ELSE <<"number_of_correct_answers: out of range">>)

MainRequestOf(b) ==
    [question_type |-> b.question_type,
     number_of_distractors |-> b.number_of_distractors.val,
     number_of_correct_answers |-> b.number_of_correct_answers.val]

\* models.QuestionRequest.validate_distractors(v, values); the result is
\* <<"error", message>> or <<"ok", value>>.  `qt` is values.get('question_type'),
\* "" when question_type itself failed validation.
validate_distractors(v, qt) ==
    IF qt \in {"MULTICHOICE", "MULTI_SELECT"} /\ IsNone(v)
        THEN <<"error", "number_of_distractors required", None>>
    ELSE IF qt \in {"TRUE_FALSE", "TRUE_FALSE_JUSTIFICATION"} /\ ~IsNone(v)
        THEN <<"ok", "", None>>
    ELSE <<"ok", "", v>>

\* models.QuestionRequest.validate_correct_answers(v, values)
validate_correct_answers(v, qt) ==
    IF qt = "MULTI_SELECT" /\ IsNone(v)
        THEN <<"error", "number_of_correct_answers required for MULTI_SELECT", None>>
    ELSE IF qt # "MULTI_SELECT" /\ ~IsNone(v)
        THEN <<"ok", "", None>>
    ELSE <<"ok", "", v>>

\* A @validator declared without always=True runs only for a field whose
\* value was supplied (an explicit null included); an omitted field takes
\* its default unvalidated.
ValidatorRuns(f) == f.given

\* One Optional[int] field of models.QuestionRequest: range check first, then
\* the class validator.
ModelsField(f, lo, hi, rangeMsg, validatorResult) ==
    IF ~InRange(f.val, lo, hi) THEN <<"error", rangeMsg, None>>
    ELSE IF ~ValidatorRuns(f) THEN <<"ok", "", f.val>>
    ELSE validatorResult

\* models.QuestionRequest(**body): fields are validated in declaration
\* order and every error is collected.
ModelsValidate(b) ==
    LET typeOk == b.question_type \in QuestionType
        qt == IF typeOk THEN b.question_type ELSE ""
        d == ModelsField(b.number_of_distractors, MinDistractors, MaxDistractors,
                         "number_of_distractors: out of range",
                         validate_distractors(b.number_of_distractors.val, qt))
        c == ModelsField(b.number_of_correct_answers, MinCorrect, MaxCorrect,
                         "number_of_correct_answers: out of range",
                         validate_correct_answers(b.number_of_correct_answers.val, qt))
    IN [errors |-> (IF typeOk THEN <<>> ELSE <<"question_type: not a valid enumeration member">>)
                   \o (IF d[1] = "error" THEN <<d[2]>> ELSE <<>>)
                   \o (IF c[1] = "error" THEN <<c[2]>> ELSE <<>>),
        request |-> [question_type |-> b.question_type,
                     number_of_distractors |-> d[3],
                     number_of_correct_answers |-> c[3]]]

----------------------------------------------------------------------------
(* main.py: validation of the /generate-questions handler, lines 70-96.    *)
(* The result is the detail of the HTTPException(400) raised, "" if none.  *)

\* the validation block with the two Multi-Select checks swapped
MainValidateDistractorsFirst(r) ==
    IF r.question_type \notin valid_types
        THEN "Invalid question_type"
    ELSE IF r.question_type = "Multi-Select" /\ IsNone(r.number_of_distractors)
        THEN "number_of_distractors is required for Multi-Select questions"
    ELSE IF r.question_type = "Multi-Select" /\ IsNone(r.number_of_correct_answers)
        THEN "number_of_correct_answers is required for Multi-Select questions"
    ELSE IF r.question_type = "Multiple Choice" /\ IsNone(r.number_of_distractors)
        THEN "number_of_distractors is required for Multiple Choice questions"
    ELSE ""

\* the validation block without its checks of the counts
MainValidateTypeOnly(r) ==
    IF r.question_type \notin valid_types THEN "Invalid question_type" ELSE ""

MainValidate(r) ==
    IF r.question_type \notin valid_types
        THEN "Invalid question_type"
    ELSE IF r.question_type = "Multi-Select" /\ IsNone(r.number_of_correct_answers)
        THEN "number_of_correct_answers is required for Multi-Select questions"
    ELSE IF r.question_type = "Multi-Select" /\ IsNone(r.number_of_distractors)
        THEN "number_of_distractors is required for Multi-Select questions"
    ELSE IF r.question_type = "Multiple Choice" /\ IsNone(r.number_of_distractors)
        THEN "number_of_distractors is required for Multiple Choice questions"
    ELSE ""

----------------------------------------------------------------------------
(* Prompt builders.  A prompt is kept as the facts it states: the number   *)
(* of questions and of options it demands and the parameters it embeds.    *)

NoPrompt == [built |-> FALSE, questions |-> 0, total_options |-> 0,
             question_type |-> "", correct |-> 0]

\* set_map_prompt raises when it adds None to an int (lines 144, 147) and
\* when no branch of lines 143-150 binds options_text
SetMapPromptRaises(r) ==
    \/ r.question_type = "Multiple Choice" /\ IsNone(r.number_of_distractors)
    \/ r.question_type = "Multi-Select"
        /\ (IsNone(r.number_of_distractors) \/ IsNone(r.number_of_correct_answers))
    \/ r.question_type \notin valid_types

\* main.set_map_prompt, lines 142-150 (total_options / options_text) and
\* line 168 ("Generate exactly 3 questions")
set_map_prompt(r) ==
    [built |-> TRUE,
     questions |-> 3,
     total_options |->
        IF r.question_type = "Multiple Choice"
            THEN Val(r.number_of_distractors) + 1
        ELSE IF r.question_type = "Multi-Select"
            THEN Val(r.number_of_distractors) + Val(r.number_of_correct_answers)
        ELSE 2,
     question_type |-> r.question_type,
     correct |-> IF r.question_type = "Multi-Select"
                    THEN Val(r.number_of_correct_answers)
                 ELSE IF r.question_type = "Multiple Choice" THEN 1 ELSE 0]

\* The generators' generate_prompt adds None to an int when a count is
\* missing, which raises TypeError.
PromptRaises(r) ==
    \/ r.question_type = "MULTICHOICE" /\ IsNone(r.number_of_distractors)
    \/ r.question_type = "MULTI_SELECT"
        /\ (IsNone(r.number_of_distractors) \/ IsNone(r.number_of_correct_answers))

\* MultipleChoiceGenerator / MultiSelectGenerator / TrueFalseGenerator /
\* TrueFalseJustificationGenerator .generate_prompt
generate_prompt(r) ==
    [built |-> TRUE,
     questions |-> 3,
     total_options |->
        IF r.question_type = "MULTICHOICE"
            THEN Val(r.number_of_distractors) + 1
        ELSE IF r.question_type = "MULTI_SELECT"
            THEN Val(r.number_of_distractors) + Val(r.number_of_correct_answers)
        ELSE 2,
     question_type |-> r.question_type,
     correct |-> IF r.question_type = "MULTI_SELECT"
                    THEN Val(r.number_of_correct_answers)
                 ELSE IF r.question_type = "MULTICHOICE" THEN 1 ELSE 0]

----------------------------------------------------------------------------
(* Model replies.  A reply text is its sequence of (stripped, non-empty)   *)
(* lines, each classified by the prefix tests the line parser applies,     *)
(* together with the JSON document that the generators' regular expression *)
(* and json.loads find in it.                                              *)

\* line kinds: "Q"    starts with 'Question ' and contains ':'   (a = text)
\*             "Opt"  starts with a letter and ')'       (a = letter, b = text)
\*             "CA"   starts with 'Correct Answer:'               (a = value)
\*             "CAs"  starts with 'Correct Answers:'   (l = comma-separated items)
\*             "TPC"  starts with 'Teaching Points Covered:'      (a = value)
\*             "MA"   starts with 'Model Answer:'                 (a = value)
\*             "Ans"  starts with 'Answer:'   (l = the comma-separated items of
\*                    the text after the colon, each a sequence of characters)
\*             "Other" anything else
Line(k, a, b, l) == [k |-> k, a |-> a, b |-> b, l |-> l]
QLine(t) == Line("Q", t, "", <<>>)
OptLine(letter, t) == Line("Opt", letter, t, <<>>)
OtherLine == Line("Other", "Here are your questions", "", <<>>)

BlockMC == << QLine("Which radar?"), OptLine("A", "alpha"), OptLine("B", "bravo"),
              OptLine("C", "charlie"), OptLine("D", "delta"),
              Line("CA", "B", "", <<>>), Line("TPC", "radar basics", "", <<>>) >>
BlockMS == << QLine("Which factors?"), OptLine("A", "alpha"), OptLine("B", "bravo"),
              OptLine("C", "charlie"), OptLine("D", "delta"),
              Line("CAs", "", "", <<"A", "C">>) >>
BlockTF == << QLine("Radar is passive."), OptLine("A", "Yes"), OptLine("B", "No"),
              Line("CA", "A", "", <<>>), Line("MA", "because", "", <<>>) >>
SampleBlocks == {BlockMC, BlockMS, BlockTF}

\* blocks in the format that structure_prompt.get_format_instructions asks for
AnsLine(items) == Line("Ans", "", "", items)
SpBlockB == << QLine("Which radar?"), OptLine("A", "alpha"), OptLine("B", "bravo"),
               OptLine("C", "charlie"), OptLine("D", "delta"),
               AnsLine(<< <<" ", "B">> >>) >>
SpBlockAC == << QLine("Which factors?"), OptLine("A", "alpha"), OptLine("B", "bravo"),
                OptLine("C", "charlie"), OptLine("D", "delta"),
                AnsLine(<< <<" ", "A">>, <<" ", "C", " ">> >>) >>
SpBlockTFJ == << QLine("Radar is passive."), OptLine("A", "Yes"), OptLine("B", "No"),
                 AnsLine(<< <<" ", "A">> >>), Line("MA", "because", "", <<>>) >>
\* a block whose line "Answer:" has nothing after the colon
SpBlockNoKey == << QLine("Which radar?"), OptLine("A", "alpha"), OptLine("B", "bravo"),
                   AnsLine(<< <<>> >>) >>
\* a block that uses the label A twice
SpBlockRepeat == << QLine("Which radar?"), OptLine("A", "alpha"), OptLine("A", "bravo"),
                    OptLine("B", "charlie"), AnsLine(<< <<" ", "A">> >>) >>
SpSampleBlocks == {SpBlockB, SpBlockAC, BlockMC}

RECURSIVE Flatten(_)
Flatten(ss) == IF ss = <<>> THEN <<>> ELSE Head(ss) \o Flatten(Tail(ss))

\* JSON documents.  An optional member is None or a singleton.
JOpt(k, v) == [key |-> k, value |-> v]
JQuestion(q, opts, ans, conf, ma) ==
    [question |-> q, options |-> opts, answer |-> ans, confidence_score |-> conf,
     model_answer |-> ma]
JGood == JQuestion({"Which radar?"},
                   {<< JOpt({"A"}, {"alpha"}), JOpt({"B"}, {"bravo"}),
                       JOpt({"C"}, {"charlie"}), JOpt({"D"}, {"delta"}) >>},
                   {<<"B">>}, {95}, {})
\* an entry with no member at all
JEmpty == JQuestion({}, {}, {}, {}, {})
\* a true/false entry whose options are not "True"/"False"
JYesNo == JQuestion({"Radar is passive."},
                    {<< JOpt({"A"}, {"Yes"}), JOpt({"B"}, {"No"}) >>},
                    {<<"A">>}, {}, {"because"})
\* an entry with an option that lacks its "key"
JBadOption == JQuestion({"Which radar?"},
                        {<< JOpt({"A"}, {"alpha"}), JOpt({}, {"bravo"}) >>},
                        {<<"A">>}, {90}, {})
\* the JSON value null where a number is expected, kept as a number that is
\* no confidence
JsonNull == 0 - 1000
\* an entry with "confidence_score": null
JNullConfidence == JQuestion({"Which radar?"},
                             {<< JOpt({"A"}, {"alpha"}), JOpt({"B"}, {"bravo"}) >>},
                             {<<"A">>}, {JsonNull}, {})
SampleEntries == {JGood, JEmpty, JYesNo, JBadOption}

\* json.loads(json_str): "invalid" raises, "list" is a document that is not
\* an object, "object" is an object with or without a "questions" member.
JDoc(kind, hasQuestions, qs) ==
    [kind |-> kind, hasQuestions |-> hasQuestions, questions |-> qs]
NoDoc == JDoc("invalid", FALSE, <<>>)

\* where the JSON document sits in the text: in a ```json fence, or the
\* whole text is the document, or there is none
Reply(lines, where, doc) == [lines |-> lines, where |-> where, doc |-> doc]
NoReply == Reply(<<>>, "none", NoDoc)

\* replies in the labeled-line format, with or without a preamble line
LineReplies ==
    { Reply(Flatten(bs), "none", NoDoc) :
        bs \in UNION {[1..n -> SampleBlocks] : n \in 0..MaxReplyQuestions} }
    \cup { Reply(<<OtherLine>> \o Flatten([i \in 1..n |-> BlockMC]), "none", NoDoc) :
                n \in 0..MaxReplyQuestions }
\* replies carrying a JSON document, fenced or bare
JsonReplies ==
    { Reply(<<OtherLine>>, "fenced", JDoc("object", TRUE, qs)) :
        qs \in UNION {[1..n -> SampleEntries] : n \in 0..MaxReplyQuestions} }
    \cup { Reply(<<OtherLine>>, "bare", JDoc("object", TRUE, [i \in 1..n |-> e])) :
                n \in 0..MaxReplyQuestions, e \in {JGood, JNullConfidence} }
    \cup { Reply(<<OtherLine>>, "bare",
                 JDoc("object", TRUE, <<JGood, JNullConfidence, JGood>>)),
           Reply(<<OtherLine>>, "fenced", JDoc("list", FALSE, <<>>)),
           Reply(<<OtherLine>>, "fenced", JDoc("object", FALSE, <<>>)),
           Reply(<<OtherLine>>, "fenced", JDoc("invalid", FALSE, <<>>)) }
Replies == LineReplies \cup JsonReplies
\* the replies tried against each entry point: every reply in the format its
\* prompt asks for, and a few in the other format
FewLineReplies ==
    { Reply(<<OtherLine>> \o Flatten([i \in 1..n |-> BlockMC]), "none", NoDoc) :
        n \in 0..MaxReplyQuestions }
FewJsonReplies ==
    { Reply(<<OtherLine>>, "fenced", JDoc("object", TRUE, [i \in 1..n |-> JGood])) :
        n \in 0..MaxReplyQuestions }
\* replies in the format of structure_prompt.py
FewAnswerReplies ==
    { Reply(Flatten([i \in 1..n |-> b]), "none", NoDoc) :
        n \in 0..MaxReplyQuestions,
        b \in {SpBlockB, SpBlockTFJ, SpBlockNoKey, SpBlockRepeat} }
StructureReplies ==
    { Reply(Flatten(bs), "none", NoDoc) :
        bs \in UNION {[1..n -> SpSampleBlocks] : n \in 0..MaxReplyQuestions} }
    \cup FewAnswerReplies
RepliesTo(e) == IF e = "main" THEN LineReplies \cup FewJsonReplies \cup FewAnswerReplies
                ELSE IF e = "structure" THEN StructureReplies \cup FewJsonReplies
                ELSE JsonReplies \cup FewLineReplies

----------------------------------------------------------------------------
(* main.py: the labeled-line parser *)

Letters == <<"A", "B", "C", "D", "E", "F", "G", "H", "I", "J", "K">>
\* chr(65 + i), i counted from 0
Chr65(i) == Letters[i + 1]

\* line.startswith('Question ') and ':' in line
IsQuestionLine(l) == l.k = "Q"
\* line.startswith(('A)', 'B)', 'C)', 'D)', 'E)', 'F)'))
IsOptionLine(l) == l.k = "Opt" /\ l.a \in {"A", "B", "C", "D", "E", "F"}

\* main.Question
MainQuestion(n, text, qtype, options, ca, cas, tpc, ma) ==
    [question_number |-> n, question_text |-> text, question_type |-> qtype,
     options |-> options, correct_answer |-> ca, correct_answers |-> cas,
     teaching_points_covered |-> tpc, model_answer |-> ma]

\* a placeholder sized by the defaults (3 distractors, 2 + 2 options)
\* whatever the request asks for
create_fallback_questionDefaultSize(question_number, question_type, nd, nc) ==
    IF question_type = "Multiple Choice" THEN
        MainQuestion(question_number, "parsing error occurred", question_type,
                     [i \in 1..4 |-> "Option " \o Chr65(i - 1)],
                     {"A"}, None, "Related to", None)
    ELSE IF question_type = "Multi-Select" THEN
        MainQuestion(question_number, "parsing error occurred", question_type,
                     [i \in 1..4 |-> "Option " \o Chr65(i - 1)],
                     None, {<<"A", "B">>}, "Related to", None)
    ELSE
        MainQuestion(question_number, "parsing error occurred", question_type,
                     <<"True", "False">>, {"A"}, None, "Related to",
                     IF question_type = "True or False with Justification"
                        THEN {"This question had parsing issues."} ELSE None)

\* main.create_fallback_question
\* (nd, nc: number_of_distractors, number_of_correct_answers)
create_fallback_question(question_number, question_type, nd, nc) ==
    IF question_type = "Multiple Choice" THEN
        LET total_options == OrDefault(nd, 3) + 1
        IN MainQuestion(question_number, "parsing error occurred", question_type,
                        [i \in 1..total_options |-> "Option " \o Chr65(i - 1)],
                        {"A"}, None, "Related to", None)
    ELSE IF question_type = "Multi-Select" THEN
        LET total_options == OrDefault(nd, 2)
                                + OrDefault(nc, 2)
            correct_count == OrDefault(nc, 2)
        IN MainQuestion(question_number, "parsing error occurred", question_type,
                        [i \in 1..total_options |-> "Option " \o Chr65(i - 1)],
                        None, {[i \in 1..correct_count |-> Chr65(i - 1)]},
                        "Related to", None)
    ELSE
        MainQuestion(question_number, "parsing error occurred", question_type,
                     <<"True", "False">>, {"A"}, None, "Related to",
                     IF question_type = "True or False with Justification"
                        THEN {"This question had parsing issues."} ELSE None)

\* the value of the last line of kind k in the block, None if there is none
LastOf(lines, k) ==
    LET idx == {i \in 1..Len(lines) : lines[i].k = k}
    IN IF idx = {} THEN None
       ELSE {lines[CHOOSE i \in idx : \A j \in idx : j <= i]}

\* a parse_single_question that returns both answer fields as it read them
parse_single_questionBothAnswers(block, question_type, question_number) ==
    LET qs == SelectSeq(block, IsQuestionLine)
        optLines == SelectSeq(block, IsOptionLine)
        ca == LastOf(block, "CA")
        cas == LastOf(block, "CAs")
        ma == LastOf(block, "MA")
    IN MainQuestion(question_number, IF qs = <<>> THEN "" ELSE Head(qs).a, question_type,
                    IF question_type \in {"True or False", "True or False with Justification"}
                        THEN <<"True", "False">>
                    ELSE [i \in 1..Len(optLines) |-> optLines[i].b],
                    IF ca = {} THEN None ELSE {Val(ca).a},
                    {IF cas = {} THEN <<>> ELSE Val(cas).l},
                    "Application of",
                    IF ma = {} THEN None ELSE {Val(ma).a})

\* main.parse_single_question
parse_single_question(block, question_type, question_number) ==
    LET qs == SelectSeq(block, IsQuestionLine)
        question_text == IF qs = <<>> THEN "" ELSE Head(qs).a
        optLines == SelectSeq(block, IsOptionLine)
        parsed == [i \in 1..Len(optLines) |-> optLines[i].b]
        options == IF question_type \in {"True or False", "True or False with Justification"}
                      THEN <<"True", "False">> ELSE parsed
        ca == LastOf(block, "CA")
        cas == LastOf(block, "CAs")
        tpc == LastOf(block, "TPC")
        ma == LastOf(block, "MA")
        correct_answer == IF ca = {} THEN None ELSE {Val(ca).a}
        correct_answers == IF cas = {} THEN <<>> ELSE Val(cas).l
    IN MainQuestion(question_number, question_text, question_type, options,
                    IF question_type # "Multi-Select" THEN correct_answer ELSE None,
                    IF question_type = "Multi-Select" THEN {correct_answers} ELSE None,
                    IF tpc = {} \/ Val(tpc).a = "" THEN "Application of" ELSE Val(tpc).a,
                    IF ma = {} THEN None ELSE {Val(ma).a})

\* the block-splitting loop of parse_generated_questions, lines 257-271
RECURSIVE SplitBlocks(_, _, _)
SplitBlocks(lines, current_block, question_blocks) ==
    IF lines = <<>> THEN
        IF current_block # <<>> THEN Append(question_blocks, current_block)
        ELSE question_blocks
    ELSE IF IsQuestionLine(Head(lines)) THEN
        SplitBlocks(Tail(lines), <<Head(lines)>>,
                    IF current_block # <<>> THEN Append(question_blocks, current_block)
                    ELSE question_blocks)
    ELSE IF current_block # <<>> THEN
        SplitBlocks(Tail(lines), Append(current_block, Head(lines)), question_blocks)
    ELSE SplitBlocks(Tail(lines), current_block, question_blocks)

Min(a, b) == IF a < b THEN a ELSE b

\* the padding loop of parse_generated_questions, lines 280-284
RECURSIVE PadMain(_, _)
PadMain(qs, r) ==
    IF Len(qs) < 3
        THEN PadMain(Append(qs, create_fallback_question(Len(qs) + 1, r.question_type,
                                    r.number_of_distractors, r.number_of_correct_answers)), r)
    ELSE qs

\* main.parse_generated_questions
parse_generated_questions(generated_text, r) ==
    LET question_blocks == SplitBlocks(generated_text.lines, <<>>, <<>>)
        firstBlocks == SubSeq(question_blocks, 1, Min(3, Len(question_blocks)))
        parsed == [i \in 1..Len(firstBlocks) |->
                      parse_single_question(firstBlocks[i], r.question_type, i)]
        padded == PadMain(parsed, r)
    IN SubSeq(padded, 1, Min(3, Len(padded)))

----------------------------------------------------------------------------
(* structure_prompt.py: the labeled-line parser with "Answer:" lines *)

\* str.strip() on a sequence of characters
RECURSIVE LStrip(_)
LStrip(cs) == IF cs # <<>> /\ Head(cs) = " " THEN LStrip(Tail(cs)) ELSE cs
RECURSIVE RStrip(_)
RStrip(cs) ==
    IF cs # <<>> /\ cs[Len(cs)] = " " THEN RStrip(SubSeq(cs, 1, Len(cs) - 1)) ELSE cs
\* lstrip() in the place of strip()
StripLeftOnly(cs) == LStrip(cs)

Strip(cs) == RStrip(LStrip(cs))
\* the string made of the characters
RECURSIVE Str(_)
Str(cs) == IF cs = <<>> THEN "" ELSE Head(cs) \o Str(Tail(cs))

\* line.startswith(('A) ', 'B) ', 'C) ', 'D) ', 'E) ', 'F) ')) on a stripped line
IsSpOptionLine(l) == l.k = "Opt" /\ l.a \in {"A", "B", "C", "D", "E", "F"} /\ l.b # ""

\* pydantic_classes.Question
SpQuestion(n, text, options, answer, ma) ==
    [question_number |-> n, question |-> text, options |-> options,
     answer |-> answer, model_answer |-> ma]

\* the first line of kind k in the block (the loops break on it), None if
\* there is none
FirstOf(lines, k) ==
    LET idx == {i \in 1..Len(lines) : lines[i].k = k}
    IN IF idx = {} THEN None
       ELSE {lines[CHOOSE i \in idx : \A j \in idx : i <= j]}

\* parse_single_question keeping the first answer key only
sp_parse_single_questionOneKey(block, question_type, question_number) ==
    LET qs == SelectSeq(block, IsQuestionLine)
        optLines == SelectSeq(block, IsSpOptionLine)
        ans == FirstOf(block, "Ans")
    IN IF ans = {} THEN None
       ELSE Some(SpQuestion(question_number, IF qs = <<>> THEN "" ELSE Head(qs).a,
                            [i \in 1..Len(optLines) |->
                                [key |-> optLines[i].a, value |-> optLines[i].b]],
                            <<Str(Strip(Val(ans).l[1]))>>, None))

\* structure_prompt.parse_single_question: None, or the Question.  Without a
\* line 'Answer:' the answer is the str "A" (line 166), which the field
\* answer: List[str] rejects: Question(...) raises and lines 178-181 return
\* None.
sp_parse_single_question(block, question_type, question_number) ==
    LET qs == SelectSeq(block, IsQuestionLine)
        question_text == IF qs = <<>> THEN "" ELSE Head(qs).a
        optLines == SelectSeq(block, IsSpOptionLine)
        parsed == [i \in 1..Len(optLines) |->
                      [key |-> optLines[i].a, value |-> optLines[i].b]]
        options == IF question_type \in {"TRUE_FALSE", "TRUE_FALSE_JUSTIFICATION"}
                      THEN << [key |-> "A", value |-> "True"],
                              [key |-> "B", value |-> "False"] >>
                   ELSE parsed
        ans == FirstOf(block, "Ans")
        ma == IF question_type = "TRUE_FALSE_JUSTIFICATION" THEN FirstOf(block, "MA")
              ELSE None
    IN IF ans = {} THEN None
       ELSE Some(SpQuestion(question_number, question_text, options,
                            [i \in 1..Len(Val(ans).l) |-> Str(Strip(Val(ans).l[i]))],
                            IF ma = {} THEN None ELSE {Val(ma).a}))

\* structure_prompt.parse_generated_questions.  The name
\* create_fallback_question is neither defined nor imported in
\* structure_prompt.py: the padding of line 96 raises NameError, the handler
\* of lines 101-108 raises it again, and it leaves the function.
sp_parse_generated_questions(generated_text, question_type) ==
    LET question_blocks == SplitBlocks(generated_text.lines, <<>>, <<>>)
        firstBlocks == SubSeq(question_blocks, 1, Min(3, Len(question_blocks)))
        results == [i \in 1..Len(firstBlocks) |->
                       sp_parse_single_question(firstBlocks[i], question_type, i)]
        kept == SelectSeq(results, LAMBDA q : ~IsNone(q))
        parsed == [i \in 1..Len(kept) |-> Val(kept[i])]
    IN IF Len(parsed) < 3
          THEN [raised |-> TRUE, questions |-> <<>>]
       ELSE [raised |-> FALSE, questions |-> SubSeq(parsed, 1, 3)]

----------------------------------------------------------------------------
(* question_generators.py: the JSON parser and the fallback questions *)

QuestionOption(k, v) == [key |-> k, value |-> v]

\* models.Question
Question(n, text, options, answer, ma, conf) ==
    [question_number |-> n, question |-> text, options |-> options,
     answer |-> answer, model_answer |-> ma, confidence_score |-> conf]

\* QuestionGenerator._create_fallback_questions
create_fallback_questions(r) ==
    [i \in 1..3 |->
        Question(i, "[Generation Error]",
                 << QuestionOption("A", "Option A"), QuestionOption("B", "Option B") >>,
                 <<"A">>, None, {0})]

\* QuestionOption(**opt) raises when "key" or "value" is missing
OptionRaises(opt) == IsNone(opt.key) \/ IsNone(opt.value)

\* Question(...) of one entry raises: a malformed option, or a confidence
\* outside [0, 1] (kept in hundredths); None passes Optional[float]
EntryRaises(q, forced) ==
    \/ ~forced /\ ~IsNone(q.options)
        /\ \E i \in 1..Len(Val(q.options)) : OptionRaises(Val(q.options)[i])
    \/ ~IsNone(q.confidence_score) /\ Val(q.confidence_score) # JsonNull
        /\ (Val(q.confidence_score) < 0 \/ Val(q.confidence_score) > 100)

TrueFalseOptions == << QuestionOption("A", "True"), QuestionOption("B", "False") >>

\* the Question built from one entry of data["questions"] by the
\* parse_response of the generator for question type t
EntryQuestion(q, i, t) ==
    Question(i,
             IF IsNone(q.question) THEN "Question i" ELSE Val(q.question),
             IF t \in {"TRUE_FALSE", "TRUE_FALSE_JUSTIFICATION"} THEN TrueFalseOptions
             ELSE IF IsNone(q.options) THEN <<>>
             ELSE [j \in 1..Len(Val(q.options)) |->
                      QuestionOption(Val(Val(q.options)[j].key), Val(Val(q.options)[j].value))],
             IF ~IsNone(q.answer) THEN Val(q.answer)
             ELSE IF t = "MULTI_SELECT" THEN <<"A", "B">> ELSE <<"A">>,
             IF t = "TRUE_FALSE_JUSTIFICATION"
                THEN (IF IsNone(q.model_answer) THEN {"Justification not provided"}
                      ELSE q.model_answer)
             ELSE None,
             IF IsNone(q.confidence_score) THEN {80}
             ELSE IF Val(q.confidence_score) = JsonNull THEN None
             ELSE q.confidence_score)

\* a parse_response that goes on to the labeled-line blocks of a reply in
\* which it finds no JSON
parse_responseThenLines(response, r) ==
    LET t == r.question_type
        forced == t \in {"TRUE_FALSE", "TRUE_FALSE_JUSTIFICATION"}
        loads == IF response.where \in {"fenced", "bare"} THEN response.doc ELSE NoDoc
        entries == IF loads.hasQuestions THEN loads.questions ELSE <<>>
        firstEntries == SubSeq(entries, 1, Min(3, Len(entries)))
        raises == \/ loads.kind # "object"
                  \/ \E i \in 1..Len(firstEntries) : EntryRaises(firstEntries[i], forced)
        blocks == SplitBlocks(response.lines, <<>>, <<>>)
        firstBlocks == SubSeq(blocks, 1, Min(3, Len(blocks)))
    IN IF response.where = "none" /\ blocks # <<>>
          THEN [i \in 1..Len(firstBlocks) |->
                   Question(i, Head(firstBlocks[i]).a, TrueFalseOptions, <<"A">>, None, {80})]
       ELSE IF raises THEN create_fallback_questions(r)
       ELSE [i \in 1..Len(firstEntries) |-> EntryQuestion(firstEntries[i], i, t)]

\* a parse_response that puts a placeholder at the position of the entry it
\* cannot use and keeps the other entries
parse_responseInPlace(response, r) ==
    LET t == r.question_type
        forced == t \in {"TRUE_FALSE", "TRUE_FALSE_JUSTIFICATION"}
        loads == IF response.where \in {"fenced", "bare"} THEN response.doc ELSE NoDoc
        entries == IF loads.hasQuestions THEN loads.questions ELSE <<>>
        firstEntries == SubSeq(entries, 1, Min(3, Len(entries)))
    IN IF loads.kind # "object" THEN create_fallback_questions(r)
       ELSE [i \in 1..Len(firstEntries) |->
                IF EntryRaises(firstEntries[i], forced) THEN create_fallback_questions(r)[i]
                ELSE EntryQuestion(firstEntries[i], i, t)]

\* {Multiple Choice, MultiSelect, TrueFalse, TrueFalseJustification}Generator
\* .parse_response
parse_response(response, r) ==
    LET t == r.question_type
        forced == t \in {"TRUE_FALSE", "TRUE_FALSE_JUSTIFICATION"}
        \* re.search finds the fenced object, else the whole text is loaded
        loads == IF response.where \in {"fenced", "bare"} THEN response.doc ELSE NoDoc
        entries == IF loads.hasQuestions THEN loads.questions ELSE <<>>
        firstEntries == SubSeq(entries, 1, Min(3, Len(entries)))
        raises == \/ loads.kind # "object"
                  \/ \E i \in 1..Len(firstEntries) : EntryRaises(firstEntries[i], forced)
    IN IF raises THEN create_fallback_questions(r)
       ELSE [i \in 1..Len(firstEntries) |-> EntryQuestion(firstEntries[i], i, t)]

\* the padding of QuestionGenerationService.generate_questions, lines 46-52
RECURSIVE PadService(_, _)
PadService(qs, r) ==
    IF Len(qs) < 3 THEN PadService(qs \o create_fallback_questions(r), r)
    ELSE qs

\* the number of iterations of the while loop of lines 48-49
RECURSIVE PadIterations(_, _)
PadIterations(qs, r) ==
    IF Len(qs) < 3 THEN 1 + PadIterations(qs \o create_fallback_questions(r), r)
    ELSE 0

\* a mean over the questions that carry a confidence score
average_confidenceOfScored(qs) ==
    LET scored == SelectSeq(qs, LAMBDA q : ~IsNone(q.confidence_score))
    IN [sum |-> SumSeq([i \in 1..Len(scored) |-> Val(scored[i].confidence_score)]),
        over |-> Len(scored)]

\* line 64: sum(q.confidence_score or 0 for q in questions) / len(questions),
\* kept as the sum (in hundredths) and the number it is divided by
average_confidence(qs) ==
    [sum |-> SumSeq([i \in 1..Len(qs) |-> OrDefault(qs[i].confidence_score, 0)]),
     over |-> Len(qs)]

\* truncation without the padding
EnsureThreeNoPad(qs, r) == SubSeq(qs, 1, Min(3, Len(qs)))

EnsureThree(qs, r) ==
    LET padded == PadService(qs, r)
    IN SubSeq(padded, 1, Min(3, Len(padded)))

----------------------------------------------------------------------------
(* State *)

NoOutcome == [kind |-> "none", status |-> 0, detail |-> ""]
Returned(status) == [kind |-> "returned", status |-> status, detail |-> ""]
Raised(status, detail) == [kind |-> "raised", status |-> status, detail |-> detail]

\* An error raised by a gateway: the message it is built with, whether the
\* message embeds the text of the last failure (str(e)), the failure that
\* was being handled when it was raised, and the attempt count it carries.
GatewayError(message, embeds, last, count) ==
    [message |-> message, embeds_cause |-> embeds, last_failure |-> last,
     attempts |-> count]
NoError == GatewayError("", FALSE, "", None)

NoMetadata == [generator_type |-> "", average_confidence |-> [sum |-> 0, over |-> 0]]

NoLlm == [kind |-> "none", text |-> NoReply, error |-> NoError]
LlmText(t) == [kind |-> "text", text |-> t, error |-> NoError]
LlmRaised(e) == [kind |-> "raised", text |-> NoReply, error |-> e]

\* the callers that use one QuestionGenerationService object at a time
Threads == {1, 2}

\* the fields that the constructors of the service, of the generators and of
\* the client assign
SharedFields == {"service.llm_client", "service.generators", "generator.llm_client",
                 "client.host", "client.api_key", "client.default_model",
                 "client.session"}
SharedObjects == [f \in SharedFields |-> "constructed"]

\* The frame of one call of QuestionGenerationService.generate_questions and
\* of the calls below it: the locals request, prompt, attempt, response and
\* questions.  `delivered` is what the model server answered to this call and
\* `overlapped` whether another call was in progress during this one.
IdleThread == [pc |-> "idle", request |-> NoRequest, prompt |-> NoPrompt,
               attempt |-> 0, delivered |-> NoLlm, response |-> NoLlm,
               questions |-> <<>>, overlapped |-> FALSE]

Init ==
    /\ pc = "idle"
    /\ entry = "none"
    /\ body = NoBody
    /\ request = NoRequest
    /\ outcome = NoOutcome
    /\ prompt = NoPrompt
    /\ attempt = 0
    /\ httpLog = <<>>
    /\ sleeps = <<>>
    /\ llm = NoLlm
    /\ llmCalls = 0
    /\ parseCalls = 0
    /\ questions = <<>>
    /\ callArgs = NoRequest
    /\ generation_metadata = NoMetadata
    /\ padIterations = 0
    /\ shared = SharedObjects
    /\ threads = [t \in Threads |-> IdleThread]

----------------------------------------------------------------------------
(* A request arrives and is deserialised *)

\* POST /generate-questions of main.py: FastAPI builds main.QuestionRequest
\* from the body and answers 422 itself when a field constraint fails.
ReceiveMain ==
    /\ pc = "idle"
    /\ \E b \in Bodies("main") :
        /\ body' = b
        /\ IF MainFieldErrors(b) # <<>>
            THEN /\ outcome' = Raised(422, Head(MainFieldErrors(b)))
                 /\ request' = NoRequest
                 /\ pc' = "done"
            ELSE /\ request' = MainRequestOf(b)
                 /\ outcome' = outcome
                 /\ pc' = "main_validate"
    /\ entry' = "main"
    /\ UNCHANGED <<prompt, attempt, httpLog, sleeps, llm, llmCalls, parseCalls, questions, callArgs, svcOut, concurrent>>

\* A caller builds models.QuestionRequest and hands it to
\* QuestionGenerationService.generate_questions.
ReceiveService ==
    /\ pc = "idle"
    /\ \E b \in Bodies("service") :
        LET v == ModelsValidate(b) IN
        /\ body' = b
        /\ IF v.errors # <<>>
            THEN /\ outcome' = Raised(0, Head(v.errors))
                 /\ request' = NoRequest
                 /\ pc' = "done"
            ELSE /\ request' = v.request
                 /\ outcome' = outcome
                 /\ pc' = "svc_prompt"
    /\ entry' = "service"
    /\ UNCHANGED <<prompt, attempt, httpLog, sleeps, llm, llmCalls, parseCalls, questions, callArgs, svcOut, concurrent>>

----------------------------------------------------------------------------
(* main.py: the /generate-questions handler *)

\* the validation block whose HTTPException is caught by the generic handler
\* of lines 132-134 and rewritten into a 500
MainValidateStepRewritten ==
    /\ pc = "main_validate"
    /\ IF MainValidate(request) # ""
        THEN /\ outcome' = Raised(500, "Question generation failed")
             /\ pc' = "done"
        ELSE /\ outcome' = outcome
             /\ pc' = "main_prompt"
    /\ body' = NoBody
    /\ UNCHANGED <<entry, request, prompt, attempt, httpLog, sleeps, llm, llmCalls,
                   parseCalls, questions, callArgs, svcOut, concurrent>>

\* lines 70-96: the validation block; lines 130-131 re-raise its
\* HTTPException unchanged
MainValidateStep ==
    /\ pc = "main_validate"
    /\ IF MainValidate(request) # ""
        THEN /\ outcome' = Raised(400, MainValidate(request))
             /\ pc' = "done"
        ELSE /\ outcome' = outcome
             /\ pc' = "main_prompt"
    /\ body' = NoBody
    /\ UNCHANGED <<entry, request, prompt, attempt, httpLog, sleeps, llm, llmCalls,
                   parseCalls, questions, callArgs, svcOut, concurrent>>

\* lines 98-106: set_map_prompt; an exception it raises becomes a 500
\* (lines 132-134)
MainBuildPrompt ==
    /\ pc = "main_prompt"
    /\ IF SetMapPromptRaises(request)
        THEN /\ outcome' = Raised(500, "Question generation failed")
             /\ pc' = "done"
             /\ UNCHANGED prompt
        ELSE /\ prompt' = set_map_prompt(request)
             /\ pc' = "main_llm"
             /\ UNCHANGED outcome
    /\ UNCHANGED <<entry, body, request, attempt, httpLog, sleeps, llm,
                   llmCalls, parseCalls, questions, callArgs, svcOut, concurrent>>

\* what one HTTP exchange can end in
HttpFailures == {"timeout", "connection", "http_status", "bad_json", "no_choices",
                 "no_content"}

\* llm_utils.get_llm_response: the message of the Exception it raises for a
\* failed exchange
GetLlmResponseError(f) ==
    IF f = "timeout" THEN GatewayError("LLM service request timed out", FALSE, f, None)
    ELSE IF f = "connection"
        THEN GatewayError("Could not connect to LLM service", FALSE, f, None)
    ELSE IF f = "http_status"
        THEN GatewayError("LLM service returned HTTP error", TRUE, f, None)
    ELSE GatewayError("LLM service call failed", TRUE, f, None)

\* line 109: get_llm_response returns the stripped text of the reply
MainLlmSuccess ==
    /\ pc = "main_llm"
    /\ \E t \in RepliesTo("main") : llm' = LlmText(t)
    /\ httpLog' = Append(httpLog, "ok")
    /\ llmCalls' = llmCalls + 1
    /\ pc' = "main_parse"
    /\ UNCHANGED <<entry, body, request, outcome, prompt, attempt, sleeps, parseCalls,
                   questions, callArgs, svcOut, concurrent>>

\* line 109 raises; lines 132-134 turn the exception into a 500
MainLlmFailure ==
    /\ pc = "main_llm"
    /\ \E f \in HttpFailures :
        /\ llm' = LlmRaised(GetLlmResponseError(f))
        /\ httpLog' = Append(httpLog, f)
    /\ llmCalls' = llmCalls + 1
    /\ outcome' = Raised(500, "Question generation failed")
    /\ pc' = "done"
    /\ UNCHANGED <<entry, body, request, prompt, attempt, sleeps, parseCalls, questions,
                   callArgs, svcOut, concurrent>>

\* lines 111-128: parse_generated_questions and the response
MainParse ==
    /\ pc = "main_parse"
    /\ questions' = parse_generated_questions(llm.text, request)
    /\ parseCalls' = parseCalls + 1
    /\ outcome' = Returned(200)
    /\ pc' = "done"
    /\ UNCHANGED <<entry, body, request, prompt, attempt, httpLog, sleeps, llm, llmCalls,
                   callArgs, svcOut, concurrent>>

----------------------------------------------------------------------------
(* question_service.py / question_generators.py / llm_client.py *)

\* QuestionGenerator.generate_questions, lines 36-38: generate_prompt.  A
\* prompt builder that raises lands in the except clause of line 50, which
\* returns the fallback questions.
SvcBuildPrompt ==
    /\ pc = "svc_prompt"
    /\ IF PromptRaises(request)
        THEN /\ questions' = create_fallback_questions(request)
             /\ pc' = "svc_assemble"
             /\ UNCHANGED <<prompt, llmCalls>>
        ELSE /\ prompt' = generate_prompt(request)
             /\ llmCalls' = llmCalls + 1
             /\ pc' = "llm_attempt"
             /\ UNCHANGED questions
    /\ body' = NoBody
    /\ UNCHANGED <<entry, request, outcome, attempt, httpLog, sleeps, llm, parseCalls,
                   callArgs, svcOut, concurrent>>

\* a backoff of 2 * attempt seconds
Pow2Times(n) == 2 * n

\* 2 ** attempt
Pow2(n) == 2 ^ n

\* an except clause that sleeps before it looks at the attempt number
ClientHandleSleepsFirst(f, message, embeds) ==
    /\ httpLog' = Append(httpLog, f)
    /\ sleeps' = Append(sleeps, Pow2(attempt))
    /\ IF attempt = max_retries - 1
        THEN /\ llm' = LlmRaised(GatewayError(message, embeds, f, None))
             /\ pc' = "svc_parse"
             /\ UNCHANGED attempt
        ELSE /\ attempt' = attempt + 1
             /\ UNCHANGED <<llm, pc>>
    /\ UNCHANGED <<entry, body, request, outcome, prompt, llmCalls, parseCalls,
                   questions, callArgs, svcOut, concurrent>>

\* One iteration of the retry loop of LLMClient.generate_response that ends
\* in the except clause built with `message`: the last iteration raises,
\* any other sleeps 2 ** attempt and goes on.
ClientHandle(f, message, embeds) ==
    /\ httpLog' = Append(httpLog, f)
    /\ IF attempt = max_retries - 1
        THEN /\ llm' = LlmRaised(GatewayError(message, embeds, f, None))
             /\ pc' = "svc_parse"
             /\ UNCHANGED <<attempt, sleeps>>
        ELSE /\ sleeps' = Append(sleeps, Pow2(attempt))
             /\ attempt' = attempt + 1
             /\ UNCHANGED <<llm, pc>>
    /\ UNCHANGED <<entry, body, request, outcome, prompt, llmCalls, parseCalls,
                   questions, callArgs, svcOut, concurrent>>

\* lines 50-69: the exchange succeeds and the body is well-formed
ClientSuccess ==
    /\ pc = "llm_attempt"
    /\ attempt < max_retries
    /\ httpLog' = Append(httpLog, "ok")
    /\ llm' = [kind |-> "returning", text |-> NoReply, error |-> NoError]
    /\ pc' = "client_return"
    /\ UNCHANGED <<entry, body, request, outcome, prompt, attempt, sleeps, llmCalls,
                   parseCalls, questions, callArgs, svcOut, concurrent>>

\* a timeout handler whose final error embeds the text of the timeout
ClientTimeoutEmbeds ==
    /\ pc = "llm_attempt"
    /\ attempt < max_retries
    /\ ClientHandle("timeout", "LLM request timed out after all retries", TRUE)

\* lines 71-75: except requests.exceptions.Timeout
ClientTimeout ==
    /\ pc = "llm_attempt"
    /\ attempt < max_retries
    /\ ClientHandle("timeout", "LLM request timed out after all retries", FALSE)

\* a handler of request errors that gives up at once on an HTTP error status
ClientRequestExceptionStatusFinal ==
    /\ pc = "llm_attempt"
    /\ attempt < max_retries
    /\ \/ \E f \in {"connection", "bad_json"} : ClientHandle(f, "LLM request failed", TRUE)
       \/ /\ httpLog' = Append(httpLog, "http_status")
          /\ llm' = LlmRaised(GatewayError("LLM request failed", TRUE, "http_status", None))
          /\ pc' = "svc_parse"
          /\ UNCHANGED <<entry, body, request, outcome, prompt, attempt, sleeps, llmCalls,
                         parseCalls, questions, callArgs, svcOut, concurrent>>

\* lines 77-81: except requests.exceptions.RequestException; raise_for_status
\* raises HTTPError, and response.json() of a current requests raises its own
\* JSONDecodeError, both of which are RequestExceptions
ClientRequestException ==
    /\ pc = "llm_attempt"
    /\ attempt < max_retries
    /\ \E f \in {"connection", "http_status", "bad_json"} :
        ClientHandle(f, "LLM request failed", TRUE)

\* a handler of unexpected errors that raises at once, without retrying
ClientOtherExceptionNoRetry ==
    /\ pc = "llm_attempt"
    /\ attempt < max_retries
    /\ \E f \in {"bad_json", "no_choices", "no_content"} :
        /\ httpLog' = Append(httpLog, f)
        /\ llm' = LlmRaised(GatewayError("LLM generation failed", TRUE, f, None))
    /\ pc' = "svc_parse"
    /\ UNCHANGED <<entry, body, request, outcome, prompt, attempt, sleeps, llmCalls,
                   parseCalls, questions, callArgs, svcOut, concurrent>>

\* lines 83-87: except Exception; the ValueError of line 60, the KeyError or
\* TypeError of line 62, and the ValueError of response.json() of an older
\* requests
ClientOtherException ==
    /\ pc = "llm_attempt"
    /\ attempt < max_retries
    /\ \E f \in {"bad_json", "no_choices", "no_content"} :
        ClientHandle(f, "LLM generation failed", TRUE)

\* line 69: return content.strip(); the frame of generate_response is gone
ClientReturn ==
    /\ pc = "client_return"
    /\ \E t \in RepliesTo("service") : llm' = LlmText(t)
    /\ attempt' = 0
    /\ httpLog' = <<>>
    /\ sleeps' = <<>>
    /\ pc' = "svc_parse"
    /\ UNCHANGED <<entry, body, request, outcome, prompt, llmCalls, parseCalls,
                   questions, callArgs, svcOut, concurrent>>

\* QuestionGenerator.generate_questions, lines 46-52: parse_response of the
\* reply, or the fallback questions when generate_response raised
GeneratorFinish ==
    /\ pc = "svc_parse"
    /\ IF llm.kind = "text"
        THEN /\ questions' = parse_response(llm.text, request)
             /\ parseCalls' = parseCalls + 1
        ELSE /\ questions' = create_fallback_questions(request)
             /\ UNCHANGED parseCalls
    /\ pc' = "svc_assemble"
    /\ UNCHANGED <<entry, body, request, outcome, prompt, attempt, httpLog, sleeps, llm,
                   llmCalls, callArgs, svcOut, concurrent>>

\* QuestionGenerationService.generate_questions, lines 46-70
ServiceAssemble ==
    /\ pc = "svc_assemble"
    /\ LET three == EnsureThree(questions, request)
       IN /\ questions' = three
          /\ padIterations' = PadIterations(questions, request)
          \* a division by len(questions) = 0 raises ZeroDivisionError, which
          \* lines 72-74 raise again
          /\ IF Len(three) = 0
                THEN /\ outcome' = Raised(0, "ZeroDivisionError")
                     /\ UNCHANGED generation_metadata
                ELSE /\ outcome' = Returned(0)
                     /\ generation_metadata' =
                            [generator_type |-> request.question_type,
                             average_confidence |-> average_confidence(three)]
    /\ pc' = "done"
    /\ UNCHANGED <<entry, body, request, prompt, attempt, httpLog, sleeps, llm,
                   llmCalls, parseCalls, callArgs, concurrent>>

----------------------------------------------------------------------------
(* baml_service.py *)

\* BAMLService.generate_questions_async is called with plain arguments
ReceiveBaml ==
    /\ pc = "idle"
    /\ \E b \in Bodies("baml") :
        /\ body' = b
        /\ request' = MainRequestOf(b)
    /\ entry' = "baml"
    /\ pc' = "baml_generate"
    /\ UNCHANGED <<outcome, prompt, attempt, httpLog, sleeps, llm, llmCalls, parseCalls,
                   questions, callArgs, svcOut, concurrent>>

\* lines 49-56: "Set defaults based on question type"
BamlDefaults(r) ==
    [question_type |-> r.question_type,
     number_of_distractors |->
        IF r.question_type = "MULTICHOICE" /\ IsNone(r.number_of_distractors) THEN Some(3)
        ELSE IF r.question_type = "MULTI_SELECT" /\ IsNone(r.number_of_distractors)
            THEN Some(2)
        ELSE r.number_of_distractors,
     number_of_correct_answers |->
        IF r.question_type = "MULTI_SELECT" /\ IsNone(r.number_of_correct_answers)
            THEN Some(2)
        ELSE r.number_of_correct_answers]

\* lines 45-84: defaults, then the GenerateQuestions call, whose result is
\* returned and whose exception is re-raised
BamlGenerate ==
    /\ pc = "baml_generate"
    /\ callArgs' = BamlDefaults(request)
    /\ llmCalls' = llmCalls + 1
    /\ \E ok \in BOOLEAN :
        outcome' = IF ok THEN Returned(0) ELSE Raised(0, "BAML question generation failed")
    /\ pc' = "done"
    /\ UNCHANGED <<entry, body, request, prompt, attempt, httpLog, sleeps, llm,
                   parseCalls, questions, svcOut, concurrent>>

----------------------------------------------------------------------------
(* structure_prompt.py *)

\* the arguments parse_generated_questions is called with
StructureArgs == [question_type : QuestionType,
                  number_of_distractors : {None, Some(3)},
                  number_of_correct_answers : {None, Some(2)}]

\* a caller hands a reply text and the request parameters to
\* structure_prompt.parse_generated_questions
CallStructureParse ==
    /\ pc = "idle"
    /\ entry' = "structure"
    /\ \E r \in StructureArgs : request' = r
    /\ \E t \in RepliesTo("structure") : llm' = LlmText(t)
    /\ pc' = "sp_parse"
    /\ UNCHANGED <<body, outcome, prompt, attempt, httpLog, sleeps, llmCalls, parseCalls,
                   questions, callArgs, svcOut, concurrent>>

\* structure_prompt.parse_generated_questions returns or raises
StructureParse ==
    /\ pc = "sp_parse"
    /\ LET r == sp_parse_generated_questions(llm.text, request.question_type)
       IN IF r.raised
            THEN /\ outcome' = Raised(0, "NameError: create_fallback_question")
                 /\ UNCHANGED questions
            ELSE /\ outcome' = Returned(0)
                 /\ questions' = r.questions
    /\ parseCalls' = parseCalls + 1
    /\ pc' = "done"
    /\ UNCHANGED <<entry, body, request, prompt, attempt, httpLog, sleeps, llm, llmCalls,
                   callArgs, svcOut, concurrent>>

----------------------------------------------------------------------------
\* the request is over; the next one starts from scratch
NextRequest ==
    /\ pc = "done"
    /\ pc' = "idle"
    /\ entry' = "none"
    /\ body' = NoBody
    /\ request' = NoRequest
    /\ outcome' = NoOutcome
    /\ prompt' = NoPrompt
    /\ attempt' = 0
    /\ httpLog' = <<>>
    /\ sleeps' = <<>>
    /\ llm' = NoLlm
    /\ llmCalls' = 0
    /\ parseCalls' = 0
    /\ questions' = <<>>
    /\ callArgs' = NoRequest
    /\ generation_metadata' = NoMetadata
    /\ padIterations' = 0
    /\ UNCHANGED concurrent

Next ==
    \/ ReceiveMain
    \/ MainValidateStep
    \/ MainBuildPrompt
    \/ MainLlmSuccess
    \/ MainLlmFailure
    \/ MainParse
    \/ ReceiveService
    \/ SvcBuildPrompt
    \/ ClientSuccess
    \/ ClientTimeout
    \/ ClientRequestException
    \/ ClientOtherException
    \/ ClientReturn
    \/ GeneratorFinish
    \/ ServiceAssemble
    \/ ReceiveBaml
    \/ BamlGenerate
    \/ CallStructureParse
    \/ StructureParse
    \/ NextRequest

Spec == Init /\ [][Next]_vars

----------------------------------------------------------------------------
(* Two callers on one service object: question_service.py,                 *)
(* question_generators.py and llm_client.py, one step of one caller at a   *)
(* time.                                                                   *)

sequential == <<pc, entry, body, request, outcome, prompt, attempt, httpLog, sleeps, llm,
                llmCalls, parseCalls, questions, callArgs, svcOut>>

\* the requests and the replies tried with concurrent callers
ConcRequests ==
    { [question_type |-> "MULTICHOICE", number_of_distractors |-> Some(3),
       number_of_correct_answers |-> None],
      [question_type |-> "MULTICHOICE", number_of_distractors |-> None,
       number_of_correct_answers |-> None],
      [question_type |-> "TRUE_FALSE", number_of_distractors |-> None,
       number_of_correct_answers |-> None] }
ConcReplies ==
    { Reply(<<OtherLine>>, "fenced", JDoc("object", TRUE, <<JGood, JYesNo, JGood>>)),
      Reply(<<OtherLine>>, "fenced", JDoc("object", TRUE, <<JYesNo>>)),
      Reply(<<OtherLine>>, "fenced", JDoc("object", TRUE, <<JGood, JBadOption, JGood>>)),
      Reply(<<OtherLine>>, "none", NoDoc) }
ConcFailures == {"timeout", "http_status", "no_content"}

\* the Exception that LLMClient.generate_response raises on its last attempt
ClientError(f) ==
    IF f = "timeout"
        THEN GatewayError("LLM request timed out after all retries", FALSE, f, None)
    ELSE IF f \in {"connection", "http_status"}
        THEN GatewayError("LLM request failed", TRUE, f, None)
    ELSE GatewayError("LLM generation failed", TRUE, f, None)

InProgress(t) == threads[t].pc \notin {"idle", "done"}

\* a step of caller t that leaves its frame as `frame`
Frame(t, frame) ==
    /\ threads' = [threads EXCEPT ![t] =
                    [frame EXCEPT !.overlapped =
                        @ \/ \E u \in Threads \ {t} : InProgress(u)]]
    /\ UNCHANGED sequential

\* generate_questions(request) is called
ThreadCall(t) ==
    /\ threads[t].pc = "idle"
    /\ \E r \in ConcRequests :
        Frame(t, [threads[t] EXCEPT !.pc = "prompt", !.request = r])
    /\ UNCHANGED shared

\* question_generators.py, lines 36-38 and 50-52
ThreadBuildPrompt(t) ==
    /\ threads[t].pc = "prompt"
    /\ IF PromptRaises(threads[t].request)
        THEN Frame(t, [threads[t] EXCEPT !.pc = "assemble",
                          !.questions = create_fallback_questions(threads[t].request)])
        ELSE Frame(t, [threads[t] EXCEPT !.pc = "attempt",
                          !.prompt = generate_prompt(threads[t].request)])
    /\ UNCHANGED shared

\* llm_client.py, lines 50-69: self.session.post succeeds and the content
\* is returned into the local `response` of line 40
ThreadAttemptOk(t) ==
    /\ threads[t].pc = "attempt"
    /\ threads[t].attempt < max_retries
    /\ \E reply \in ConcReplies :
        Frame(t, [threads[t] EXCEPT !.pc = "parse", !.delivered = LlmText(reply),
                                    !.response = LlmText(reply)])
    /\ UNCHANGED shared

\* llm_client.py, lines 71-87: the attempt fails
ThreadAttemptFails(t) ==
    /\ threads[t].pc = "attempt"
    /\ threads[t].attempt < max_retries
    /\ \E f \in ConcFailures :
        IF threads[t].attempt = max_retries - 1
            THEN Frame(t, [threads[t] EXCEPT !.pc = "parse",
                              !.delivered = LlmRaised(ClientError(f)),
                              !.response = LlmRaised(ClientError(f))])
        ELSE Frame(t, [threads[t] EXCEPT !.attempt = @ + 1])
    /\ UNCHANGED shared

\* question_generators.py, lines 46-52
ThreadParse(t) ==
    /\ threads[t].pc = "parse"
    /\ Frame(t, [threads[t] EXCEPT !.pc = "assemble",
                    !.questions =
                        IF threads[t].response.kind = "text"
                            THEN parse_response(threads[t].response.text, threads[t].request)
                        ELSE create_fallback_questions(threads[t].request)])
    /\ UNCHANGED shared

\* question_service.py, lines 46-70
ThreadAssemble(t) ==
    /\ threads[t].pc = "assemble"
    /\ Frame(t, [threads[t] EXCEPT !.pc = "done",
                    !.questions = EnsureThree(threads[t].questions, threads[t].request)])
    /\ UNCHANGED shared

\* the caller has its result; its frame is gone
ThreadDone(t) ==
    /\ threads[t].pc = "done"
    /\ threads' = [threads EXCEPT ![t] = IdleThread]
    /\ UNCHANGED <<sequential, shared>>

\* a client that keeps the reply in a field of its own, self.last_response,
\* from which the generator takes it
ThreadStepSharedResponse(t) ==
    \/ ThreadCall(t)
    \/ ThreadBuildPrompt(t)
    \/ /\ threads[t].pc = "attempt"
       /\ threads[t].attempt < max_retries
       /\ \E reply \in ConcReplies :
            /\ Frame(t, [threads[t] EXCEPT !.pc = "parse", !.delivered = LlmText(reply)])
            /\ shared' = [f \in DOMAIN shared \cup {"client.last_response"} |->
                             IF f = "client.last_response" THEN LlmText(reply)
                             ELSE shared[f]]
    \/ /\ threads[t].pc = "attempt"
       /\ threads[t].attempt < max_retries
       /\ \E f \in ConcFailures :
            IF threads[t].attempt = max_retries - 1
                THEN /\ Frame(t, [threads[t] EXCEPT !.pc = "parse",
                                     !.delivered = LlmRaised(ClientError(f))])
                     /\ shared' = [g \in DOMAIN shared \cup {"client.last_response"} |->
                                      IF g = "client.last_response"
                                          THEN LlmRaised(ClientError(f))
                                      ELSE shared[g]]
            ELSE Frame(t, [threads[t] EXCEPT !.attempt = @ + 1]) /\ UNCHANGED shared
    \/ /\ threads[t].pc = "parse"
       /\ Frame(t, [threads[t] EXCEPT !.pc = "assemble",
                       !.questions =
                           IF shared["client.last_response"].kind = "text"
                               THEN parse_response(shared["client.last_response"].text,
                                                   threads[t].request)
                           ELSE create_fallback_questions(threads[t].request)])
       /\ UNCHANGED shared
    \/ ThreadAssemble(t)
    \/ ThreadDone(t)

\* one step of the call of caller t
ThreadStep(t) ==
    \/ ThreadCall(t)
    \/ ThreadBuildPrompt(t)
    \/ ThreadAttemptOk(t)
    \/ ThreadAttemptFails(t)
    \/ ThreadParse(t)
    \/ ThreadAssemble(t)
    \/ ThreadDone(t)

ConcNext == \E t \in Threads : ThreadStep(t)

ConcSpec == Init /\ [][ConcNext]_vars

----------------------------------------------------------------------------
(* The request being served, as sent: the raw body while it is held, the   *)
(* request object afterwards.                                              *)

ReqType == IF body # NoBody THEN body.question_type ELSE request.question_type
ReqDistractors == IF body # NoBody THEN body.number_of_distractors.val
                  ELSE request.number_of_distractors
ReqCorrect == IF body # NoBody THEN body.number_of_correct_answers.val
              ELSE request.number_of_correct_answers

----------------------------------------------------------------------------
(* Properties *)

\* C1: whenever QuestionGenerationService.generate_questions or
\* main.parse_generated_questions returns, the returned question list has
\* exactly 3 elements, whatever number of questions the reply held.
C1_ExactlyThreeQuestions ==
    (entry \in {"main", "service"} /\ outcome.kind = "returned")
        => Len(questions) = NumQuestions

\* C1 witness: the service returned after a reply with one parseable entry,
\* so that two placeholders had to be added
C1_Witness ==
    /\ entry = "service" /\ pc = "done" /\ outcome.kind = "returned"
    /\ llm.kind = "text"
    /\ Len(parse_response(llm.text, request)) = 1

\* C2: for a true/false (with or without justification) request every
\* returned question, parsed or placeholder, has exactly the options
\* A = "True", B = "False", in that order.
C2_TrueFalseOptionsFixed ==
    (entry \in {"main", "service"} /\ outcome.kind = "returned"
        /\ IsTrueFalse(request.question_type))
        => \A i \in 1..Len(questions) :
             IF entry = "service" THEN questions[i].options = TrueFalseOptions
             ELSE questions[i].options = <<"True", "False">>

\* C3: when the inference call of a request fails, the failure propagates to
\* the caller and no question list is returned.
C3_InferenceFailureIsHard ==
    (entry \in {"main", "service"} /\ pc = "done" /\ llm.kind = "raised")
        => (outcome.kind = "raised" /\ questions = <<>>)

\* C4: in LLMClient.generate_response, if the first k attempts (k = 0, 1, 2)
\* time out and attempt k+1 succeeds, exactly k+1 attempts are made, the
\* reply is returned and the sleeps are 2^0, ..., 2^(k-1) seconds, in that
\* order: 3 attempts and 3 seconds for two timeouts.
C4_TimeoutsThenSuccess ==
    \A k \in 0..(max_retries - 1) :
        (/\ entry = "service"
         /\ Len(httpLog) > k
         /\ \A i \in 1..k : httpLog[i] = "timeout"
         /\ httpLog[k + 1] = "ok")
        => /\ Len(httpLog) = k + 1
           /\ llm.kind = "returning"
           /\ sleeps = [i \in 1..k |-> 2 ^ (i - 1)]
           /\ (k = 2 => SumSeq(sleeps) = 3)

\* C4 witness: two timeouts, then a success
C4_Witness ==
    /\ pc = "client_return"
    /\ httpLog = <<"timeout", "timeout", "ok">>

\* the bodies that are malformed although the exchange itself succeeded:
\* no or empty "choices" (line 59), no message content (line 62)
MalformedBodies == {"no_choices", "no_content"}

\* C5 (as stated): a malformed body makes LLMClient.generate_response fail
\* at once: it is the last attempt, the call raises, and no sleep follows.
C5_MalformedBodyFailsAtOnce ==
    entry = "service" =>
        \A i \in 1..Len(httpLog) :
            httpLog[i] \in MalformedBodies
                => (i = Len(httpLog) /\ llm.kind = "raised" /\ Len(sleeps) = i - 1)

\* C5 (amended): a malformed body is handled like every other failure: on
\* attempt 1 or 2 the client sleeps 2^(attempt-1) seconds and goes on to
\* another attempt; only on attempt 3 does the call raise.
C5_MalformedBodyIsRetried ==
    entry = "service" =>
        \A i \in 1..Len(httpLog) :
            httpLog[i] \in MalformedBodies
                => IF i < max_retries
                      THEN /\ Len(sleeps) >= i
                           /\ sleeps[i] = 2 ^ (i - 1)
                           /\ (i = Len(httpLog)
                                => pc = "llm_attempt" /\ attempt = i /\ llm.kind = "none")
                      ELSE /\ llm.kind = "raised"
                           /\ Len(sleeps) = max_retries - 1
                           /\ pc # "llm_attempt"

\* C5 witness: a body without "choices" on the first attempt, then a success
C5_Witness ==
    /\ pc = "client_return"
    /\ httpLog = <<"no_choices", "ok">>
    /\ sleeps = <<1>>

\* C6 (as stated): the error raised after 3 failed attempts carries the
\* number of attempts made and the cause of the last failure.
C6_ErrorCarriesCountAndCause ==
    (entry = "service" /\ llm.kind = "raised")
        => /\ llm.error.attempts = {Len(httpLog)}
           /\ llm.error.last_failure = httpLog[Len(httpLog)]

\* C6 (amended): the error raised after 3 failed attempts carries the cause
\* of the last failure (the failure being handled, whose text the message
\* embeds except for a timeout) but no attempt count.
C6_ErrorCarriesCauseOnly ==
    (entry = "service" /\ llm.kind = "raised")
        => /\ Len(httpLog) = max_retries
           /\ llm.error.last_failure = httpLog[max_retries]
           /\ llm.error.attempts = None
           /\ llm.error.embeds_cause = (httpLog[max_retries] # "timeout")
           /\ llm.error.message \in
                (IF httpLog[max_retries] = "timeout"
                    THEN {"LLM request timed out after all retries"}
                 ELSE IF httpLog[max_retries] \in {"connection", "http_status"}
                    THEN {"LLM request failed"}
                 ELSE IF httpLog[max_retries] \in MalformedBodies
                    THEN {"LLM generation failed"}
                 ELSE {"LLM request failed", "LLM generation failed"})

\* C6 witness: three failed attempts, the last one a timeout
C6_Witness ==
    /\ entry = "service" /\ llm.kind = "raised"
    /\ httpLog = <<"connection", "no_choices", "timeout">>

\* C7: validation rejects every multi-select request without a
\* correct-answer count with an error naming that count, and accepts a
\* single-choice request with 3 distractors, whose prompt asks for 4 options.
\* (Stated for requests whose other fields are valid.)
C7_ValidationContract ==
    /\ (/\ entry \in {"main", "service"}
        /\ pc # "main_validate"
        /\ IsMultiSelect(ReqType)
        /\ IsNone(ReqCorrect)
        /\ ~IsNone(ReqDistractors)
        /\ InRange(ReqDistractors, MinDistractors, MaxDistractors))
       => /\ outcome.kind = "raised"
          /\ outcome.detail \in
                {"number_of_correct_answers is required for Multi-Select questions",
                 "number_of_correct_answers required for MULTI_SELECT"}
    /\ (/\ entry \in {"main", "service"}
        /\ IsSingleChoice(ReqType)
        /\ ReqDistractors = Some(3)
        /\ InRange(ReqCorrect, MinCorrect, MaxCorrect))
       => /\ outcome.status \notin {400, 422}
          /\ (entry = "service" => outcome.kind # "raised")
          /\ (prompt.built => prompt.total_options = 4)

\* C8: a single-choice or multi-select request without a distractor count
\* is rejected by validation; the model is never called for it.
C8_MissingDistractorsRejected ==
    (entry \in {"main", "service", "baml"}
        /\ (IsSingleChoice(ReqType) \/ IsMultiSelect(ReqType)) /\ IsNone(ReqDistractors))
        => /\ llmCalls = 0
           /\ (pc = "done" => outcome.kind = "raised" /\ llm.kind = "none")

\* The validation rules of the /generate-questions endpoint, as they hold
\* of the request being served
RuleFails(rule) ==
    IF rule = "type" THEN ReqType \notin valid_types
    ELSE IF rule = "distractors"
        THEN ReqType \in {"Multiple Choice", "Multi-Select"} /\ IsNone(ReqDistractors)
    ELSE IF rule = "correct" THEN ReqType = "Multi-Select" /\ IsNone(ReqCorrect)
    ELSE \/ ~InRange(ReqDistractors, MinDistractors, MaxDistractors)
         \/ ~InRange(ReqCorrect, MinCorrect, MaxCorrect)

\* the first rule of `order` that fails, "none" if none does
FirstFailing(order) ==
    LET failing == {i \in 1..Len(order) : RuleFails(order[i])}
    IN IF failing = {} THEN "none"
       ELSE order[CHOOSE i \in failing : \A j \in failing : i <= j]

\* the rule that the error handed to the caller reports
Reported ==
    IF outcome.status = 422 THEN "range"
    ELSE IF outcome.status # 400 THEN "none"
    ELSE IF outcome.detail = "Invalid question_type" THEN "type"
    ELSE IF outcome.detail = "number_of_correct_answers is required for Multi-Select questions"
        THEN "correct"
    ELSE "distractors"

\* C9 (as stated): the rules are checked in the order unknown type, missing
\* distractor count, missing correct-answer count, numeric range, and the
\* first failing rule is the one reported.
C9_RuleOrderAsStated ==
    (entry = "main" /\ pc = "done")
        => Reported = FirstFailing(<<"type", "distractors", "correct", "range">>)

\* C9 (amended): the numeric ranges are checked first, when the body is
\* deserialised; the handler then checks unknown type, missing
\* correct-answer count, missing distractor count; the first failing rule is
\* the one reported.
C9_RuleOrder ==
    (entry = "main" /\ pc = "done")
        => Reported = FirstFailing(<<"range", "type", "correct", "distractors">>)

\* C9 witness: a Multi-Select request missing both counts was rejected
C9_Witness ==
    /\ entry = "main" /\ pc = "done" /\ outcome.status = 400
    /\ ReqType = "Multi-Select" /\ IsNone(ReqDistractors) /\ IsNone(ReqCorrect)

\* C10: in the /generate-questions handler a request that fails validation
\* (unknown type, or a count missing that its type requires) is answered
\* 400 without any call of the inference endpoint and without any parsing.
C10_ValidationPrecedesCall ==
    (/\ entry = "main"
     /\ RuleFails("type") \/ RuleFails("distractors") \/ RuleFails("correct"))
        => /\ llmCalls = 0
           /\ parseCalls = 0
           /\ httpLog = <<>>
           /\ llm.kind = "none"
           /\ pc \in {"main_validate", "done"}
           /\ (pc = "done" /\ ~RuleFails("range") => outcome.status = 400)

\* C10 witness: a Multiple Choice request without distractor count was
\* answered 400
C10_Witness ==
    /\ entry = "main" /\ pc = "done" /\ outcome.status = 400
    /\ ReqType = "Multiple Choice" /\ IsNone(ReqDistractors)
    /\ llmCalls = 0

C12_ParsingNeverRaises ==
    (parseCalls > 0 /\ pc = "done")
        => (outcome.kind = "returned" /\ questions # <<>>)

\* the number of options the request being served calls for
RequestedOptions ==
    IF IsSingleChoice(request.question_type) THEN Val(request.number_of_distractors) + 1
    ELSE IF IsMultiSelect(request.question_type)
        THEN Val(request.number_of_distractors) + Val(request.number_of_correct_answers)
    ELSE 2

\* the number of questions that the parser took from the reply
ParsedCount ==
    IF entry = "main"
        THEN Min(3, Len(SplitBlocks(llm.text.lines, <<>>, <<>>)))
    ELSE IF entry = "structure" THEN Len(questions)
    ELSE IF parse_response(llm.text, request) = create_fallback_questions(request) THEN 0
    ELSE Len(parse_response(llm.text, request))

\* C13: every placeholder of a returned result (the questions after the
\* parsed ones; all 3 when the reply holds no question) has the text
\* "Question <n> - parsing error occurred", as many options as the request
\* calls for, the answer key list ["A"] and confidence 0.0.
C13_PlaceholderShape ==
    (entry \in {"main", "service"} /\ pc = "done" /\ outcome.kind = "returned"
        /\ llm.kind = "text")
        => \A i \in (ParsedCount + 1)..3 :
            /\ Len(questions[i].options) = RequestedOptions
            /\ IF entry = "main"
                 THEN /\ questions[i].question_text = "parsing error occurred"
                      /\ \/ questions[i].correct_answer = {"A"}
                         \/ questions[i].correct_answers = {<<"A">>}
                 ELSE /\ questions[i].question = "parsing error occurred"
                      /\ questions[i].answer = <<"A">>
                      /\ questions[i].confidence_score = {0}

\* the option keys of a returned question: main.Question lists bare option
\* texts, whose keys are the letters A, B, ... by position
OptionKeys(q) ==
    IF entry = "main" THEN {Chr65(j - 1) : j \in 1..Len(q.options)}
    ELSE {q.options[j].key : j \in 1..Len(q.options)}

\* the answer keys of a returned question, as a sequence
AnswerKeys(q) ==
    IF entry # "main" THEN q.answer
    ELSE IF q.question_type = "Multi-Select"
        THEN (IF IsNone(q.correct_answers) THEN <<>> ELSE Val(q.correct_answers))
    ELSE IF IsNone(q.correct_answer) THEN <<>> ELSE <<Val(q.correct_answer)>>

\* C14: in every question of every returned result the answer key list is
\* non-empty and each answer key is the key of one of the question's options.
C14_AnswerKeysAreOptionKeys ==
    (entry \in {"main", "service", "structure"} /\ pc = "done"
        /\ outcome.kind = "returned")
        => \A i \in 1..Len(questions) :
            /\ AnswerKeys(questions[i]) # <<>>
            /\ \A j \in 1..Len(AnswerKeys(questions[i])) :
                    AnswerKeys(questions[i])[j] \in OptionKeys(questions[i])

\* the answer count that the type of the request calls for
RequestedAnswers ==
    IF IsMultiSelect(request.question_type) THEN Val(request.number_of_correct_answers)
    ELSE 1

ListedAnswers(i) ==
    IF entry = "service" THEN
        LET e == llm.text.doc.questions[i]
        IN IF ~IsNone(e.answer) THEN Val(e.answer)
           ELSE IF request.question_type = "MULTI_SELECT" THEN <<"A", "B">>
           ELSE <<"A">>
    ELSE LET block == SplitBlocks(llm.text.lines, <<>>, <<>>)[i]
             k == IF entry = "structure" THEN "Ans"
                  ELSE IF request.question_type = "Multi-Select" THEN "CAs" ELSE "CA"
             found == {j \in 1..Len(block) : block[j].k = k}
             first == CHOOSE j \in found : \A h \in found : j <= h
             last == CHOOSE j \in found : \A h \in found : h <= j
         IN IF found = {} THEN <<>>
            ELSE IF entry = "structure"
                THEN [h \in 1..Len(block[first].l) |-> Str(Strip(block[first].l[h]))]
            ELSE IF k = "CAs" THEN block[last].l
            ELSE <<block[last].a>>

BlockOf(i) == SplitBlocks(llm.text.lines, <<>>, <<>>)[i]

\* the option texts of a returned question, in order
OptionTexts(q) ==
    IF entry = "main" THEN q.options
    ELSE [j \in 1..Len(q.options) |-> q.options[j].value]

\* the labels of the option lines of a block, in the order of the lines
DeclaredLabels(block) ==
    LET optLines == SelectSeq(block, LAMBDA l : l.k = "Opt")
    IN [j \in 1..Len(optLines) |-> optLines[j].a]

\* the texts of the option lines of a block, in the order of the lines
DeclaredOptions(block) ==
    LET optLines == SelectSeq(block, LAMBDA l : l.k = "Opt")
    IN [j \in 1..Len(optLines) |-> optLines[j].b]

\* C16 (as stated): from a block made of a "Question <n>:" line, the option
\* lines A) to D) and the line "Answer: B", parse_single_question (of
\* structure_prompt.py and of main.py) returns, for a single-choice request,
\* the 4 options in declaration order and the answer key list ["B"].
C16_AnswerLineParsed ==
    (entry \in {"main", "structure"} /\ pc = "done" /\ outcome.kind = "returned"
        /\ llm.kind = "text" /\ IsSingleChoice(request.question_type))
        => \A i \in 1..ParsedCount :
              BlockOf(i) = SpBlockB
                => /\ OptionTexts(questions[i]) = <<"alpha", "bravo", "charlie", "delta">>
                   /\ AnswerKeys(questions[i]) = <<"B">>

\* C16 (amended): structure_prompt.parse_single_question returns the options
\* in declaration order (for the types whose options are not forced) and
\* the first "Answer:" line split on commas into trimmed keys: ["B"] and 4
\* options for the block above.  main.parse_single_question returns the
\* options in declaration order too, but reads "Correct Answer:" and
\* "Correct Answers:" lines: for the block above it returns no answer.
C16_LabeledLineParse ==
    (entry \in {"main", "structure"} /\ pc = "done" /\ outcome.kind = "returned"
        /\ llm.kind = "text")
        => \A i \in 1..ParsedCount :
            /\ ~IsTrueFalse(request.question_type)
                => OptionTexts(questions[i]) = DeclaredOptions(BlockOf(i))
            /\ (entry = "structure" /\ ~IsTrueFalse(request.question_type))
                => \A j \in 1..Len(questions[i].options) :
                      questions[i].options[j].key = DeclaredLabels(BlockOf(i))[j]
            /\ (entry = "structure" /\ BlockOf(i) = SpBlockB)
                => questions[i].answer = <<"B">>
            /\ (entry = "structure" /\ BlockOf(i) = SpBlockAC)
                => questions[i].answer = <<"A", "C">>
            /\ (BlockOf(i) = SpBlockB /\ IsSingleChoice(request.question_type))
                => /\ Len(questions[i].options) = 4
                   /\ entry = "main" => AnswerKeys(questions[i]) = <<>>
            /\ (entry = "main" /\ BlockOf(i) = BlockMC
                    /\ IsSingleChoice(request.question_type))
                => questions[i].correct_answer = {"B"}
            /\ (entry = "main" /\ BlockOf(i) = BlockMS
                    /\ IsMultiSelect(request.question_type))
                => questions[i].correct_answers = {<<"A", "C">>}

\* C16 witness: structure_prompt.py parsed a multiple-choice block with the
\* line "Answer: B" into a question with 4 options and the answer ["B"]
C16_Witness ==
    /\ entry = "structure" /\ pc = "done" /\ outcome.kind = "returned"
    /\ request.question_type = "MULTICHOICE"
    /\ BlockOf(2) = SpBlockB
    /\ Len(questions[2].options) = 4
    /\ questions[2].answer = <<"B">>

\* C18 (as stated): in LLMClient.generate_response an attempt that ends with
\* an HTTP error status is the last one: no sleep and no further attempt
\* follow it.
C18_HttpErrorNotRetried ==
    entry = "service" =>
        \A i \in 1..Len(httpLog) :
            httpLog[i] = "http_status"
                => (i = Len(httpLog) /\ pc # "llm_attempt" /\ Len(sleeps) < i)

\* C18 (amended): LLMClient.generate_response makes a further attempt after
\* every failed attempt but the third, whatever the failure (timeout,
\* transport failure, HTTP error status, unexpected error): the failure of
\* attempt 1 or 2 is followed by a sleep of 2^(attempt-1) seconds and by
\* another attempt, and only the failure of attempt 3 makes the call raise.
C18_EveryFailureRetried ==
    entry = "service" =>
        \A i \in 1..Len(httpLog) :
            httpLog[i] \in HttpFailures
                => IF i < max_retries
                      THEN /\ Len(sleeps) >= i /\ sleeps[i] = 2 ^ (i - 1)
                           /\ \/ Len(httpLog) > i
                              \/ pc = "llm_attempt" /\ attempt = i /\ llm.kind = "none"
                      ELSE /\ i = Len(httpLog)
                           /\ llm.kind = "raised"
                           /\ llm.error.last_failure = httpLog[i]

\* C18 witness: an HTTP error status on the first attempt, a sleep of 1
\* second, then a successful second attempt
C18_Witness ==
    /\ entry = "service" /\ pc = "client_return"
    /\ httpLog = <<"http_status", "ok">>
    /\ sleeps = <<1>>

\* C19: llm_utils.get_llm_response, the gateway of the /generate-questions
\* handler, retries a call that timed out or could not connect: it raises
\* only after 3 HTTP attempts with a backoff sleep between them.
C19_GetLlmResponseRetries ==
    (entry = "main" /\ llm.kind = "raised"
        /\ llm.error.last_failure \in {"timeout", "connection"})
        => /\ Len(httpLog) = max_retries
           /\ sleeps = <<1, 2>>

\* C20 (as stated): when the reply holds no JSON but well-formed
\* "Question <n>:" blocks, the parser of the generator classes returns the
\* questions parsed from the blocks, not placeholders.
C20_LinesAfterJson ==
    (entry = "service" /\ pc = "done" /\ llm.kind = "text"
        /\ llm.text.where = "none"
        /\ SplitBlocks(llm.text.lines, <<>>, <<>>) # <<>>)
        => questions[1].question = Head(BlockOf(1)).a

\* C20 (amended): the parser of the generator classes has a single strategy,
\* JSON (the fenced object if there is one, else the whole reply): when the
\* reply holds no JSON, with or without well-formed "Question <n>:" blocks,
\* it returns the 3 "[Generation Error]" placeholders.
C20_JsonOnly ==
    (entry = "service" /\ pc \in {"svc_assemble", "done"} /\ llm.kind = "text"
        /\ llm.text.where = "none")
        => questions = create_fallback_questions(request)

\* C20 witness: the service answered a reply made of three well-formed
\* question blocks with placeholders
C20_Witness ==
    /\ entry = "service" /\ pc = "done" /\ outcome.kind = "returned"
    /\ llm.kind = "text" /\ llm.text.where = "none"
    /\ Len(SplitBlocks(llm.text.lines, <<>>, <<>>)) = 3
    /\ questions[1].question = "[Generation Error]"

----------------------------------------------------------------------------
\* the entries of the reply that a generator's parse_response works on
ReplyEntries ==
    IF llm.text.where \in {"fenced", "bare"} /\ llm.text.doc.kind = "object"
            /\ llm.text.doc.hasQuestions
        THEN SubSeq(llm.text.doc.questions, 1, Min(3, Len(llm.text.doc.questions)))
    ELSE <<>>

\* the positions of the entries from which no Question can be built
MalformedEntries ==
    {i \in 1..Len(ReplyEntries) :
        EntryRaises(ReplyEntries[i],
                    request.question_type \in {"TRUE_FALSE", "TRUE_FALSE_JUSTIFICATION"})}

\* C21 (as stated): when exactly one of the three questions of the reply
\* cannot be turned into a well-formed question, the other two parsed
\* questions are returned unchanged at their positions and only the position
\* of the malformed one holds a placeholder.
C21_ReplacedInPlace ==
    (entry = "service" /\ pc = "done" /\ outcome.kind = "returned" /\ llm.kind = "text"
        /\ Len(ReplyEntries) = 3 /\ Cardinality(MalformedEntries) = 1)
        => \A i \in 1..3 :
            questions[i] = IF i \in MalformedEntries
                              THEN create_fallback_questions(request)[i]
                           ELSE EntryQuestion(ReplyEntries[i], i, request.question_type)

\* C21 (amended): when exactly one of the three entries of the reply cannot
\* be turned into a Question, the result of the generator classes holds the 3
\* placeholders and none of the two questions that did parse.
C21_OneMalformedAllPlaceholders ==
    (entry = "service" /\ pc = "done" /\ outcome.kind = "returned" /\ llm.kind = "text"
        /\ Len(ReplyEntries) = 3 /\ Cardinality(MalformedEntries) = 1)
        => questions = create_fallback_questions(request)

\* C21 witness: a multiple-choice result for a reply whose second entry alone
\* has an option without a key
C21_Witness ==
    /\ entry = "service" /\ pc = "done" /\ outcome.kind = "returned" /\ llm.kind = "text"
    /\ Len(ReplyEntries) = 3 /\ MalformedEntries = {2}
    /\ ReplyEntries[1] = JGood /\ ReplyEntries[3] = JGood
    /\ questions = create_fallback_questions(request)

\* C22: the justification (model_answer) of a returned question is present
\* only when the request type is true/false with justification; for every
\* other type it is absent in every returned question, also when the reply
\* contains a "Model Answer:" line.
C22_JustificationOnlyWhenAsked ==
    (entry \in {"main", "service", "structure"} /\ pc = "done"
        /\ outcome.kind = "returned"
        /\ request.question_type \notin {"True or False with Justification",
                                         "TRUE_FALSE_JUSTIFICATION"})
        => \A i \in 1..Len(questions) : IsNone(questions[i].model_answer)

\* C23: in every returned question the option keys are single letters from A
\* to F and no key occurs twice within the question, also when the reply
\* repeats an option label and when the requested total number of options
\* exceeds 6.
C23_OptionKeysAToFUnique ==
    (entry \in {"main", "service", "structure"} /\ pc = "done"
        /\ outcome.kind = "returned")
        => \A i \in 1..Len(questions) :
            /\ OptionKeys(questions[i]) \subseteq {"A", "B", "C", "D", "E", "F"}
            /\ Cardinality(OptionKeys(questions[i])) = Len(questions[i].options)

\* C24: each generation request (one that passed validation) invokes the
\* gateway operation exactly once, the invocation makes at most 3 HTTP
\* attempts, and padding to 3 questions never triggers a second model call.
C24_GatewayCalledExactlyOnce ==
    /\ llmCalls <= 1
    /\ Len(httpLog) <= max_retries
    /\ (entry \in {"main", "service", "baml"} /\ pc = "done" /\ request # NoRequest
            /\ ~(entry = "main" /\ outcome.status = 400))
        => llmCalls = 1

\* the questions that generate_questions returns for request r when it is
\* the only call in progress and the model server answers `delivered`
ServiceResult(r, delivered) ==
    EnsureThree(IF PromptRaises(r) THEN create_fallback_questions(r)
                ELSE IF delivered.kind = "text" THEN parse_response(delivered.text, r)
                ELSE create_fallback_questions(r),
                r)

\* C25: concurrent requests do not interfere: no step of generate_questions
\* or of generate_response writes a field of the shared service, generator
\* or client objects, and in any interleaving of two requests each request's
\* result equals the result it gets when run alone with the same replies.
C25_NoInterference ==
    /\ shared = SharedObjects
    /\ \A t \in Threads :
        threads[t].pc = "done"
            => threads[t].questions = ServiceResult(threads[t].request, threads[t].delivered)

\* C25 witness: two calls that overlapped have both returned, one the
\* questions parsed from its reply and the other placeholders
C25_Witness ==
    /\ \A t \in Threads : threads[t].pc = "done" /\ threads[t].overlapped
    /\ threads[1].delivered.kind = "text" /\ threads[2].delivered.kind = "raised"
    /\ threads[1].questions[1].question = "Which radar?"
    /\ threads[2].questions = create_fallback_questions(threads[2].request)

\* C26: in every result returned by QuestionGenerationService
\* .generate_questions the three questions carry the question numbers 1, 2,
\* 3 in list order, also when fewer than 3 questions were parsed and the list
\* was padded with fallback questions.
C26_NumberedInOrder ==
    (entry = "service" /\ pc = "done" /\ outcome.kind = "returned")
        => \A i \in 1..Len(questions) : questions[i].question_number = i

\* the HTTP attempts of the call in progress that failed
FailedAttempts == {i \in 1..Len(httpLog) : httpLog[i] # "ok"}

\* C27: every call of LLMClient.generate_response ends after at most 3 HTTP
\* attempts, by returning the reply of a successful attempt or by raising:
\* no attempt follows a success, no backoff sleep follows the third failed
\* attempt, and the call never leaves the retry loop without a value.
C27_RetryLoopEnds ==
    entry = "service"
        => /\ Len(httpLog) <= max_retries
           /\ \A i \in 1..(Len(httpLog) - 1) : httpLog[i] # "ok"
           /\ Len(sleeps) = Min(Cardinality(FailedAttempts), max_retries - 1)
           /\ pc = "llm_attempt"
                => attempt < max_retries /\ Len(httpLog) = attempt /\ llm.kind = "none"
           /\ pc = "client_return"
                => httpLog[Len(httpLog)] = "ok" /\ llm.kind = "returning"
           /\ pc = "svc_parse"
                => \/ llm.kind = "text"
                   \/ /\ llm.kind = "raised"
                      /\ Cardinality(FailedAttempts) = max_retries

\* C27 witness: the call has raised on its third failed attempt, after the
\* two sleeps that follow the first and the second
C27_Witness ==
    /\ entry = "service" /\ pc = "svc_parse" /\ llm.kind = "raised"
    /\ Len(httpLog) = max_retries /\ sleeps = <<1, 2>>

\* C28: in main.py, for every request that passed validation, a placeholder
\* built by create_fallback_question has exactly the number of options that
\* set_map_prompt demanded in the prompt for that request: distractors + 1
\* for Multiple Choice, distractors + correct answers for Multi-Select, 2 for
\* the true/false types.
C28_PlaceholderOptionsAsPrompted ==
    (entry = "main" /\ pc = "done" /\ outcome.kind = "returned")
        => /\ prompt.built
           /\ prompt.total_options =
                IF request.question_type = "Multiple Choice"
                    THEN Val(request.number_of_distractors) + 1
                ELSE IF request.question_type = "Multi-Select"
                    THEN Val(request.number_of_distractors)
                            + Val(request.number_of_correct_answers)
                ELSE 2
           /\ \A i \in (ParsedCount + 1)..3 :
                Len(questions[i].options) = prompt.total_options

\* C28 witness: a Multi-Select request for 6 distractors and 1 correct answer
\* whose reply held two questions is answered with a third, placeholder,
\* question of 7 options
C28_Witness ==
    /\ entry = "main" /\ pc = "done" /\ outcome.kind = "returned"
    /\ request.question_type = "Multi-Select"
    /\ request.number_of_distractors = Some(6)
    /\ request.number_of_correct_answers = Some(1)
    /\ ParsedCount = 2
    /\ questions[3].question_text = "parsing error occurred"
    /\ Len(questions[3].options) = 7

\* C29: in QuestionGenerationService.generate_questions the mean confidence
\* is always computed over exactly 3 questions, so the division is never by
\* zero; a question without a confidence score counts as 0; and the padding
\* loop that precedes it runs at most one iteration.
C29_MeanOverThree ==
    (entry = "service" /\ pc = "done" /\ request # NoRequest)
        => /\ outcome.kind = "returned"
           /\ generation_metadata.average_confidence.over = 3
           /\ generation_metadata.average_confidence.sum =
                SumSeq([i \in 1..3 |->
                           IF IsNone(questions[i].confidence_score) THEN 0
                           ELSE Val(questions[i].confidence_score)])
           /\ padIterations <= 1

\* C29 witness: a reply with a single entry, whose confidence is null, was
\* padded in one iteration, and the mean is taken over the 3 questions
C29_Witness ==
    /\ entry = "service" /\ pc = "done" /\ outcome.kind = "returned"
    /\ IsNone(questions[1].confidence_score)
    /\ padIterations = 1
    /\ generation_metadata.average_confidence = [sum |-> 0, over |-> 3]

\* C30: in every question returned by main.py, parsed or placeholder, the
\* single-answer field and the multi-answer field are mutually exclusive by
\* type: for Multi-Select correct_answer is absent and correct_answers is a
\* list, and for every other type correct_answers is absent.
C30_AnswerFieldsByType ==
    (entry = "main" /\ pc = "done" /\ outcome.kind = "returned")
        => \A i \in 1..Len(questions) :
            IF request.question_type = "Multi-Select"
                THEN /\ IsNone(questions[i].correct_answer)
                     /\ ~IsNone(questions[i].correct_answers)
            ELSE IsNone(questions[i].correct_answers)

\* C30 witness: a Multi-Select result whose first question was parsed from a
\* block with a "Correct Answer:" line and whose third is a placeholder
C30_Witness ==
    /\ entry = "main" /\ pc = "done" /\ outcome.kind = "returned"
    /\ request.question_type = "Multi-Select"
    /\ ParsedCount = 2
    /\ \E j \in 1..Len(BlockOf(1)) : BlockOf(1)[j].k = "CA"
    /\ IsNone(questions[1].correct_answer)
    /\ questions[3].question_text = "parsing error occurred"
    /\ ~IsNone(questions[3].correct_answers)

====
